---- MODULE Spec2Model ----
(***************************************************************************)
(* Model of backend/ask_ai.go of ES-Writer: the /getAnswers handler        *)
(* processQuestionsWithAI and the completion client sendToAi.              *)
(*                                                                         *)
(* ask_ai.go exists in two versions:                                       *)
(*   "gemini"  (lines 1-224): identity and profile are resolved first and  *)
(*             sendToAi posts to the generative-language API through       *)
(*             net/http with the request bound to the shared context;      *)
(*   "bedrock" (lines 226-434): no identity or profile step, a fixed bio,  *)
(*             and sendToAi calls bedrockruntime.InvokeModel.              *)
(* One behaviour of the model is one request served by one of the two.     *)
(* Task indices are 1-based here (Go's answers[i-1]).                      *)
(***************************************************************************)
EXTENDS Integers, Sequences, FiniteSets, TLC

\* Largest number of questions extractQuestions returns in the model.
MaxQuestions == 2

Variants == {"gemini", "bedrock"}
Methods == {"OPTIONS", "POST"}
QuestionTexts == {"Q1", "Q2"}
Texts == {"", "A1", "A2"}

\* UserProfile values the users table can hold (type UserProfile).
Profiles ==
    { [Bio |-> "b1", Experience |-> "e1", Projects |-> "p1"],
      [Bio |-> "b2", Experience |-> "e2", Projects |-> "p2"] }

\* var profile UserProfile: the zero value.
ZeroProfile == [Bio |-> "", Experience |-> "", Projects |-> ""]

\* The bio literal of the bedrock version.
FixedBio == "bio"

Tasks == 1..MaxQuestions

\* The sequences extractQuestions can return: document order, duplicates kept.
QuestionSeqs == UNION { [1..n -> QuestionTexts] : n \in 0..MaxQuestions }

HeaderNames ==
    { "Access-Control-Allow-Origin", "Access-Control-Allow-Methods",
      "Access-Control-Allow-Headers", "Content-Type" }

VARIABLES
    variant,        \* which version of ask_ai.go serves the request
    method,         \* r.Method
    pc,             \* position of the handler
    status,         \* status code written to w (0: none yet)
    headers,        \* w.Header()
    authRes,        \* outcome of getValueFromToken: "none", "ok", "fail"
    profRes,        \* outcome of getUserProfile: "none", "ok", "fail"
    profileFetches, \* number of calls of getUserProfile
    profile,        \* the handler's profile variable
    decodeRes,      \* outcome of json.Decode of the body
    extracted,      \* extractQuestions was called
    questions,      \* its result
    answers,        \* the answers slice
    wg,             \* the WaitGroup counter
    ctx,            \* the shared context: "none", "live", "expired", "cancelled"
    spawned,        \* number of iterations of the dispatch loop done
    tstate,         \* per goroutine: "none","pending","calling","returned","done"
    prompt,         \* per goroutine: the prompt it composed
    reply,          \* per goroutine: what the provider call produced, << >> if none
    res,            \* per goroutine: (answer, err) of sendToAi
    invocations,    \* per goroutine: calls of sendToAi
    calls,          \* per goroutine: outbound provider calls issued
    writes,         \* per slot: the goroutines that assigned it, in order
    inflightAtExpiry, \* goroutines inside a provider call when the deadline elapsed
    response        \* the JSON array encoded to w

vars ==
    << variant, method, pc, status, headers, authRes, profRes, profileFetches,
       profile, decodeRes, extracted, questions, answers, wg, ctx, spawned,
       tstate, prompt, reply, res, invocations, calls, writes,
       inflightAtExpiry, response >>

handlerVars ==
    << status, headers, authRes, profRes, profileFetches, profile, decodeRes,
       extracted, questions, response >>

taskVars == << tstate, prompt, reply, res, invocations, calls, writes >>

----------------------------------------------------------------------------
\* type Answer struct: the zero value.
ZeroAnswer == [question |-> "", answer |-> ""]

\* Mutant: the slice is made one element short.
MakeAnswersShort(n) == [i \in 1..(n - 1) |-> ZeroAnswer]

\* answers := make([]Answer, len(questions))
MakeAnswers(n) == [i \in 1..n |-> ZeroAnswer]

\* Mutant: the goroutine indexes with a shared loop variable that has moved on.
WriteSlotShifted(ans, i, q, a) ==
    [ans EXCEPT ![(i % Len(ans)) + 1] = [question |-> q, answer |-> a]]

\* answers[i] = Answer{Question: q, Answer: answer}
WriteSlot(ans, i, q, a) == [ans EXCEPT ![i] = [question |-> q, answer |-> a]]

\* net/http: the first WriteHeader wins, later ones are superfluous.
WriteHeader(st, code) == IF st = 0 THEN code ELSE st

\* http.Error sets the content type and writes the code.
HttpError(h) == [h EXCEPT !["Content-Type"] = "text/plain; charset=utf-8"]

\* The three CORS headers set on entry.
SetCORS(h) ==
    [h EXCEPT !["Access-Control-Allow-Origin"] = "*",
              !["Access-Control-Allow-Methods"] = "POST, OPTIONS",
              !["Access-Control-Allow-Headers"] = "Content-Type"]

\* generatePromptWithBio: the profile text followed by the question.
generatePromptWithBio(p, q) ==
    IF variant = "gemini"
    THEN << p.Bio, p.Experience, p.Projects, q >>
    ELSE << FixedBio, q >>

Init ==
    /\ variant \in Variants
    /\ method \in Methods
    /\ pc = "start"
    /\ status = 0
    /\ headers = [h \in HeaderNames |-> ""]
    /\ authRes = "none"
    /\ profRes = "none"
    /\ profileFetches = 0
    /\ profile = ZeroProfile
    /\ decodeRes = "none"
    /\ extracted = FALSE
    /\ questions = << >>
    /\ answers = << >>
    /\ wg = 0
    /\ ctx = "none"
    /\ spawned = 0
    /\ tstate = [i \in Tasks |-> "none"]
    /\ prompt = [i \in Tasks |-> << >>]
    /\ reply = [i \in Tasks |-> << >>]
    /\ res = [i \in Tasks |-> [text |-> "", err |-> FALSE]]
    /\ invocations = [i \in Tasks |-> 0]
    /\ calls = [i \in Tasks |-> 0]
    /\ writes = [i \in Tasks |-> << >>]
    /\ inflightAtExpiry = {}
    /\ response = << >>

\* Mutant: no short cut for OPTIONS.
PreflightNoShortCut ==
    /\ pc = "start"
    /\ headers' = SetCORS(headers)
    /\ status' = status
    /\ pc' = IF variant = "gemini" THEN "auth" ELSE "decode"
    /\ UNCHANGED << variant, method, authRes, profRes, profileFetches, profile,
                    decodeRes, extracted, questions, answers, wg, ctx, spawned,
                    taskVars, inflightAtExpiry, response >>

\* CORS headers, then the OPTIONS short cut.
Preflight ==
    /\ pc = "start"
    /\ headers' = SetCORS(headers)
    /\ IF method = "OPTIONS"
       THEN /\ status' = WriteHeader(status, 200)
            /\ pc' = "done"
       ELSE /\ status' = status
            /\ pc' = IF variant = "gemini" THEN "auth" ELSE "decode"
    /\ UNCHANGED << variant, method, authRes, profRes, profileFetches, profile,
                    decodeRes, extracted, questions, answers, wg, ctx, spawned,
                    taskVars, inflightAtExpiry, response >>

\* Mutant: the return after the 401 is missing.
ResolveIdentityNoReturn ==
    /\ pc = "auth"
    /\ \E ok \in BOOLEAN :
        IF ok
        THEN /\ authRes' = "ok"
             /\ UNCHANGED << status, headers >>
        ELSE /\ authRes' = "fail"
             /\ status' = WriteHeader(status, 401)
             /\ headers' = HttpError(headers)
    /\ pc' = "profile"
    /\ UNCHANGED << variant, method, profRes, profileFetches, profile,
                    decodeRes, extracted, questions, answers, wg, ctx, spawned,
                    taskVars, inflightAtExpiry, response >>

\* userID, err := getValueFromToken(r, "sub")
ResolveIdentity ==
    /\ pc = "auth"
    /\ \E ok \in BOOLEAN :
        IF ok
        THEN /\ authRes' = "ok"
             /\ pc' = "profile"
             /\ UNCHANGED << status, headers >>
        ELSE /\ authRes' = "fail"
             /\ status' = WriteHeader(status, 401)
             /\ headers' = HttpError(headers)
             /\ pc' = "done"
    /\ UNCHANGED << variant, method, profRes, profileFetches, profile,
                    decodeRes, extracted, questions, answers, wg, ctx, spawned,
                    taskVars, inflightAtExpiry, response >>

\* getUserProfile: the row of the user, or an error with the zero profile.
getUserProfile(found, row) ==
    IF found THEN [profile |-> row, err |-> FALSE]
    ELSE [profile |-> ZeroProfile, err |-> TRUE]

\* Mutant: a failed lookup is logged and the request goes on with the zero
\* profile.
FetchProfileFallback ==
    /\ pc = "profile"
    /\ profileFetches' = profileFetches + 1
    /\ \E found \in BOOLEAN, row \in Profiles :
        LET r == getUserProfile(found, row) IN
        /\ profile' = r.profile
        /\ profRes' = IF r.err THEN "fail" ELSE "ok"
    /\ pc' = "decode"
    /\ UNCHANGED << variant, method, status, headers, authRes, decodeRes,
                    extracted, questions, answers, wg, ctx, spawned, taskVars,
                    inflightAtExpiry, response >>

\* profile, err := getUserProfile(userID)
FetchProfile ==
    /\ pc = "profile"
    /\ profileFetches' = profileFetches + 1
    /\ \E found \in BOOLEAN, row \in Profiles :
        LET r == getUserProfile(found, row) IN
        /\ profile' = r.profile
        /\ IF r.err
           THEN /\ profRes' = "fail"
                /\ status' = WriteHeader(status, 500)
                /\ headers' = HttpError(headers)
                /\ pc' = "done"
           ELSE /\ profRes' = "ok"
                /\ pc' = "decode"
                /\ UNCHANGED << status, headers >>
    /\ UNCHANGED << variant, method, authRes, decodeRes, extracted, questions,
                    answers, wg, ctx, spawned, taskVars, inflightAtExpiry,
                    response >>

\* err = json.NewDecoder(r.Body).Decode(&req)
DecodeBody ==
    /\ pc = "decode"
    /\ \E ok \in BOOLEAN :
        IF ok
        THEN /\ decodeRes' = "ok"
             /\ pc' = "extract"
             /\ UNCHANGED << status, headers >>
        ELSE /\ decodeRes' = "fail"
             /\ status' = WriteHeader(status, 400)
             /\ headers' = HttpError(headers)
             /\ pc' = "done"
    /\ UNCHANGED << variant, method, authRes, profRes, profileFetches, profile,
                    extracted, questions, answers, wg, ctx, spawned, taskVars,
                    inflightAtExpiry, response >>

\* Mutant: the empty check is missing.
NoQuestionsUnchecked(qs) == FALSE

\* if len(questions) == 0
NoQuestions(qs) == Len(qs) = 0

\* cleanHTMLContent, extractQuestions, the empty check, then the WaitGroup,
\* the 30 s context and the answers slice.
Extract ==
    /\ pc = "extract"
    /\ extracted' = TRUE
    /\ \E qs \in QuestionSeqs :
        /\ questions' = qs
        /\ IF NoQuestions(qs)
           THEN /\ status' = WriteHeader(status, 400)
                /\ headers' = HttpError(headers)
                /\ pc' = "done"
                /\ UNCHANGED << ctx, answers >>
           ELSE /\ ctx' = "live"
                /\ answers' = MakeAnswers(Len(qs))
                /\ pc' = "dispatch"
                /\ UNCHANGED << status, headers >>
    /\ UNCHANGED << variant, method, authRes, profRes, profileFetches, profile,
                    decodeRes, wg, spawned, taskVars, inflightAtExpiry,
                    response >>

\* One iteration of the dispatch loop: wg.Add(1); go func(i, q) {...}(i, question)
Spawn ==
    /\ pc = "dispatch"
    /\ spawned < Len(questions)
    /\ wg' = wg + 1
    /\ spawned' = spawned + 1
    /\ tstate' = [tstate EXCEPT ![spawned + 1] = "pending"]
    /\ UNCHANGED << variant, method, pc, handlerVars, answers, ctx, prompt,
                    reply, res, invocations, calls, writes, inflightAtExpiry >>

\* Mutant: the handler goes on to encode without waiting for the counter.
WaitNoBarrier ==
    /\ pc = "dispatch"
    /\ spawned = Len(questions)
    /\ pc' = "encode"
    /\ UNCHANGED << variant, method, handlerVars, answers, wg, ctx, spawned,
                    taskVars, inflightAtExpiry >>

\* wg.Wait() returns once the counter is zero.
Wait ==
    /\ pc = "dispatch"
    /\ spawned = Len(questions)
    /\ wg = 0
    /\ pc' = "encode"
    /\ UNCHANGED << variant, method, handlerVars, answers, wg, ctx, spawned,
                    taskVars, inflightAtExpiry >>

\* Content-Type, json.NewEncoder(w).Encode(answers), return (deferred cancel).
Respond ==
    /\ pc = "encode"
    /\ headers' = [headers EXCEPT !["Content-Type"] = "application/json"]
    /\ status' = WriteHeader(status, 200)
    /\ response' = answers
    /\ ctx' = "cancelled"
    /\ pc' = "done"
    /\ UNCHANGED << variant, method, authRes, profRes, profileFetches, profile,
                    decodeRes, extracted, questions, answers, wg, spawned,
                    taskVars, inflightAtExpiry >>

\* The 30 s of context.WithTimeout elapse.
Expire ==
    /\ ctx = "live"
    /\ ctx' = "expired"
    /\ inflightAtExpiry' = { i \in Tasks : tstate[i] = "calling" }
    /\ UNCHANGED << variant, method, pc, handlerVars, answers, wg, spawned,
                    taskVars >>

----------------------------------------------------------------------------
\* What the provider can send back to the gemini client.
\* What sendToAi never gets to look at (the status when client.Do or
\* io.ReadAll failed, a body that was not read, candidates of a body that was
\* not decoded) carries the zero value.
GeminiReplies ==
    { r \in [ transportOk : BOOLEAN, readOk : BOOLEAN, status : {0, 200, 500},
              wellFormed : BOOLEAN, candidates : 0..1, parts : 0..1,
              text : Texts ] :
        /\ ~r.transportOk => ~r.readOk
        /\ (r.status = 0) <=> ~r.readOk
        /\ r.status # 200 => ~r.wellFormed
        /\ ~r.wellFormed => r.candidates = 0
        /\ r.candidates = 0 => r.parts = 0
        /\ r.parts = 0 => r.text = "" }

\* What InvokeModel can produce for the bedrock client.
BedrockReplies ==
    { r \in [ invokeOk : BOOLEAN, wellFormed : BOOLEAN, completion : Texts ] :
        /\ ~r.invokeOk => ~r.wellFormed
        /\ ~r.wellFormed => r.completion = "" }

Failure == [text |-> "", err |-> TRUE]

\* sendToAi of the gemini version, from client.Do on.
sendToAiGemini(r) ==
    IF ~r.transportOk THEN Failure
    ELSE IF ~r.readOk THEN Failure
    ELSE IF r.status # 200 THEN Failure
    ELSE IF ~r.wellFormed THEN Failure
    ELSE IF r.candidates > 0 /\ r.parts > 0
         THEN [text |-> r.text, err |-> FALSE]
    ELSE Failure

\* sendToAi of the bedrock version, from InvokeModel on.
sendToAiBedrock(r) ==
    IF ~r.invokeOk THEN Failure
    ELSE IF ~r.wellFormed THEN Failure
    ELSE IF r.completion = "" THEN Failure
    ELSE [text |-> r.completion, err |-> FALSE]

\* Does the transport issue the request? net/http refuses a request whose
\* context is done; InvokeModel is given context.TODO() and always goes out.
IssuesCall(v, c) == IF v = "gemini" THEN c = "live" ELSE TRUE

\* Can reply r reach sendToAi under context c? A gemini request bound to a
\* done context ends in a transport or body-read error; bedrock is unbound.
Deliverable(v, c, r) ==
    IF v = "gemini" THEN c = "live" \/ ~r.transportOk \/ ~r.readOk ELSE TRUE

\* Mutant: each goroutine fetches the profile again for its own prompt.
StartRefetch(i) ==
    /\ tstate[i] = "pending"
    /\ \E row \in Profiles :
        /\ profile' = (IF variant = "gemini" THEN row ELSE profile)
        /\ prompt' = [prompt EXCEPT ![i] = generatePromptWithBio(profile', questions[i])]
    /\ profileFetches' = profileFetches + 1
    /\ invocations' = [invocations EXCEPT ![i] = @ + 1]
    /\ \E prepared \in (IF variant = "bedrock" THEN BOOLEAN ELSE {TRUE}) :
        IF prepared /\ IssuesCall(variant, ctx)
        THEN /\ tstate' = [tstate EXCEPT ![i] = "calling"]
             /\ calls' = [calls EXCEPT ![i] = @ + 1]
             /\ res' = res
        ELSE /\ tstate' = [tstate EXCEPT ![i] = "returned"]
             /\ res' = [res EXCEPT ![i] = Failure]
             /\ calls' = calls
    /\ UNCHANGED << variant, method, pc, status, headers, authRes, profRes,
                    decodeRes, extracted, questions, response, answers, wg, ctx,
                    spawned, reply, writes, inflightAtExpiry >>

\* The goroutine starts: composes its prompt and enters sendToAi, up to the
\* point where the request is handed to the transport.
Start(i) ==
    /\ tstate[i] = "pending"
    /\ prompt' = [prompt EXCEPT ![i] = generatePromptWithBio(profile, questions[i])]
    /\ invocations' = [invocations EXCEPT ![i] = @ + 1]
    /\ \E prepared \in (IF variant = "bedrock" THEN BOOLEAN ELSE {TRUE}) :
        IF prepared /\ IssuesCall(variant, ctx)
        THEN /\ tstate' = [tstate EXCEPT ![i] = "calling"]
             /\ calls' = [calls EXCEPT ![i] = @ + 1]
             /\ res' = res
        ELSE /\ tstate' = [tstate EXCEPT ![i] = "returned"]
             /\ res' = [res EXCEPT ![i] = Failure]
             /\ calls' = calls
    /\ UNCHANGED << variant, method, pc, handlerVars, answers, wg, ctx, spawned,
                    reply, writes, inflightAtExpiry >>

\* The provider call ends and sendToAi returns (answer, err) to the goroutine.
Return(i) ==
    /\ tstate[i] = "calling"
    /\ \E r \in (IF variant = "gemini" THEN GeminiReplies ELSE BedrockReplies) :
        /\ Deliverable(variant, ctx, r)
        /\ reply' = [reply EXCEPT ![i] = << r >>]
        /\ res' = [res EXCEPT ![i] =
                     IF variant = "gemini" THEN sendToAiGemini(r)
                     ELSE sendToAiBedrock(r)]
    /\ tstate' = [tstate EXCEPT ![i] = "returned"]
    /\ UNCHANGED << variant, method, pc, handlerVars, answers, wg, ctx, spawned,
                    prompt, invocations, calls, writes, inflightAtExpiry >>

\* Mutant: the closure reads the loop variable of the handler instead of
\* taking i as an argument.
SlotIndexShared(i) == spawned

\* go func(i int, q string) {...}(i, question): the goroutine's own copy of i.
SlotIndex(i) == i

\* Mutant: a failed call is retried once instead of being given up.
FinishRetry(i) ==
    /\ tstate[i] = "returned"
    /\ IF res[i].err /\ invocations[i] < 2
       THEN /\ tstate' = [tstate EXCEPT ![i] = "pending"]
            /\ UNCHANGED << answers, writes, wg >>
       ELSE /\ IF res[i].err
               THEN UNCHANGED << answers, writes >>
               ELSE /\ answers' = WriteSlot(answers, SlotIndex(i), questions[i], res[i].text)
                    /\ writes' = [writes EXCEPT ![SlotIndex(i)] = Append(@, i)]
            /\ wg' = wg - 1
            /\ tstate' = [tstate EXCEPT ![i] = "done"]
    /\ UNCHANGED << variant, method, pc, handlerVars, ctx, spawned, prompt,
                    reply, res, invocations, calls, inflightAtExpiry >>

\* Mutant: the question is stored before the err check.
FinishKeepQuestion(i) ==
    /\ tstate[i] = "returned"
    /\ IF res[i].err
       THEN /\ answers' = WriteSlot(answers, SlotIndex(i), questions[i], "")
            /\ writes' = writes
       ELSE /\ answers' = WriteSlot(answers, SlotIndex(i), questions[i], res[i].text)
            /\ writes' = [writes EXCEPT ![SlotIndex(i)] = Append(@, i)]
    /\ wg' = wg - 1
    /\ tstate' = [tstate EXCEPT ![i] = "done"]
    /\ UNCHANGED << variant, method, pc, handlerVars, ctx, spawned, prompt,
                    reply, res, invocations, calls, inflightAtExpiry >>

\* Mutant: wg.Done() is not deferred and the error path returns without it.
FinishNoDoneOnError(i) ==
    /\ tstate[i] = "returned"
    /\ IF res[i].err
       THEN UNCHANGED << answers, writes, wg >>
       ELSE /\ answers' = WriteSlot(answers, SlotIndex(i), questions[i], res[i].text)
            /\ writes' = [writes EXCEPT ![SlotIndex(i)] = Append(@, i)]
            /\ wg' = wg - 1
    /\ tstate' = [tstate EXCEPT ![i] = "done"]
    /\ UNCHANGED << variant, method, pc, handlerVars, ctx, spawned, prompt,
                    reply, res, invocations, calls, inflightAtExpiry >>

\* if err != nil { log; return }; answers[i] = ...; deferred wg.Done()
Finish(i) ==
    /\ tstate[i] = "returned"
    /\ IF res[i].err
       THEN UNCHANGED << answers, writes >>
       ELSE /\ answers' = WriteSlot(answers, SlotIndex(i), questions[i], res[i].text)
            /\ writes' = [writes EXCEPT ![SlotIndex(i)] = Append(@, i)]
    /\ wg' = wg - 1
    /\ tstate' = [tstate EXCEPT ![i] = "done"]
    /\ UNCHANGED << variant, method, pc, handlerVars, ctx, spawned, prompt,
                    reply, res, invocations, calls, inflightAtExpiry >>

Next ==
    \/ Preflight
    \/ ResolveIdentity
    \/ FetchProfile
    \/ DecodeBody
    \/ Extract
    \/ Spawn
    \/ Wait
    \/ Respond
    \/ Expire
    \/ \E i \in Tasks : Start(i)
    \/ \E i \in Tasks : Return(i)
    \/ \E i \in Tasks : Finish(i)

Spec == Init /\ [][Next]_vars

\* The Go scheduler runs every runnable goroutine, and every provider call
\* comes back (with text or an error).
FairSpec ==
    /\ Spec
    /\ WF_vars(Spawn)
    /\ WF_vars(Wait)
    /\ WF_vars(Respond)
    /\ \A i \in Tasks : WF_vars(Start(i)) /\ WF_vars(Return(i)) /\ WF_vars(Finish(i))

----------------------------------------------------------------------------
\* The request went through dispatch and its response has been written.
Answered == pc = "done" /\ ctx # "none"

Slots == 1..Len(questions)

\* C1: the returned array has exactly as many elements as extractQuestions
\* returned, whichever tasks succeed or fail and in whatever order.
ThmC1_Length == Answered => Len(response) = Len(questions)

WitC1_Length ==
    /\ Answered
    /\ Len(questions) >= 2
    /\ \E i, j \in Slots : res[i].err /\ ~res[j].err

\* C2: response[i].question equals the i-th extracted question for every
\* index, also for a task whose sendToAi call failed.
CexC2_QuestionKept ==
    Answered => \A i \in Slots : response[i].question = questions[i]

\* C3: if sendToAi fails for exactly one index k, response[k].answer is empty
\* and every other element is what its own task produced.
ThmC3_Isolation ==
    Answered =>
        \A k \in Slots :
            (res[k].err /\ \A i \in Slots \ {k} : ~res[i].err) =>
                /\ response[k].answer = ""
                /\ \A i \in Slots \ {k} :
                      response[i] = [question |-> questions[i], answer |-> res[i].text]

WitC3_Isolation ==
    /\ Answered
    /\ \E k \in Slots :
        /\ res[k].err
        /\ Slots \ {k} # {}
        /\ \A i \in Slots \ {k} : ~res[i].err /\ res[i].text # ""

\* C4: if every completion call is still running when the deadline elapses,
\* the response is produced with all answers empty.
CexC4_DeadlineBounds ==
    (Answered /\ inflightAtExpiry = Slots) =>
        \A i \in Slots : response[i].answer = ""

\* C5: if every sendToAi invocation returns without error, every answer in
\* the response is non-empty.
CexC5_NonEmpty ==
    (Answered /\ \A i \in Slots : ~res[i].err) =>
        \A i \in Slots : response[i].answer # ""

NoTaskActivity ==
    /\ spawned = 0
    /\ wg = 0
    /\ ctx = "none"
    /\ \A i \in Tasks : tstate[i] = "none" /\ invocations[i] = 0 /\ calls[i] = 0

\* C6: with zero extracted questions the handler answers 400, spawns no task
\* and never invokes sendToAi.
ThmC6_NoQuestions ==
    (extracted /\ Len(questions) = 0) =>
        /\ pc = "done"
        /\ status = 400
        /\ NoTaskActivity

WitC6_NoQuestions == extracted /\ Len(questions) = 0 /\ pc = "done"

ExpectedStatus ==
    IF authRes = "fail" THEN 401
    ELSE IF profRes = "fail" THEN 500
    ELSE IF decodeRes = "fail" \/ (extracted /\ Len(questions) = 0) THEN 400
    ELSE 200

\* C7: a non-OPTIONS request ends 401 on an identity failure, 500 on a profile
\* failure, 400 on a malformed body or zero questions, and 200 otherwise,
\* however many tasks succeeded.
ThmC7_StatusCodes ==
    (pc = "done" /\ method # "OPTIONS") => status = ExpectedStatus

WitC7_StatusCodes ==
    /\ pc = "done"
    /\ method = "POST"
    /\ status = 200
    /\ Len(questions) >= 2
    /\ \A i \in Slots : res[i].err

\* C8: a request that ends 401, 500 or 400 never spawned a task nor issued a
\* completion call, and an identity failure comes before profile lookup, body
\* decoding and extraction.
ThmC8_ShortCircuit ==
    /\ status \in {400, 401, 500} => pc = "done" /\ NoTaskActivity
    /\ authRes = "fail" =>
          /\ profRes = "none"
          /\ profileFetches = 0
          /\ decodeRes = "none"
          /\ ~extracted

WitC8_ShortCircuit == pc = "done" /\ status = 401 /\ authRes = "fail"

\* C9: an OPTIONS request is answered 200 with the three CORS headers and none
\* of identity check, profile lookup, decoding, extraction or dispatch happens.
ThmC9_Preflight ==
    method = "OPTIONS" =>
        /\ authRes = "none"
        /\ profRes = "none"
        /\ profileFetches = 0
        /\ decodeRes = "none"
        /\ ~extracted
        /\ NoTaskActivity
        /\ pc = "done" =>
              /\ status = 200
              /\ headers["Access-Control-Allow-Origin"] = "*"
              /\ headers["Access-Control-Allow-Methods"] = "POST, OPTIONS"
              /\ headers["Access-Control-Allow-Headers"] = "Content-Type"

WitC9_Preflight == method = "OPTIONS" /\ pc = "done" /\ status = 200

\* C10: sendToAi issues no provider call when its context is already done, and
\* a call in flight when the context expires is aborted with an error.
CexC10_HonorsContext ==
    \A i \in Tasks :
        /\ (tstate[i] = "calling" /\ ctx = "expired") => i \in inflightAtExpiry
        /\ (tstate[i] \in {"returned", "done"} /\ i \in inflightAtExpiry) => res[i].err

\* C11: the task spawned for index i writes only answers[i], no two tasks
\* write the same slot, and a slot is written at most once: once when its task
\* succeeded, never when it failed.
ThmC11_SlotOwnership ==
    \A s \in Tasks :
        /\ Len(writes[s]) <= 1
        /\ \A k \in 1..Len(writes[s]) : writes[s][k] = s
        /\ tstate[s] = "done" =>
              IF res[s].err
              THEN writes[s] = << >> /\ answers[s] = ZeroAnswer
              ELSE writes[s] = << s >>
        /\ tstate[s] # "done" => writes[s] = << >>

WitC11_SlotOwnership ==
    /\ Answered
    /\ Len(questions) >= 2
    /\ \A s \in Slots : writes[s] = << s >>

OneTaskPerQuestion ==
    /\ spawned <= Len(questions)
    /\ \A i \in Tasks :
        /\ invocations[i] <= 1
        /\ i > spawned => tstate[i] = "none" /\ invocations[i] = 0
    /\ Answered => \A i \in Slots : tstate[i] = "done" /\ invocations[i] = 1

NoRetryStep ==
    \A i \in Tasks :
        /\ tstate[i] = "done" => tstate'[i] = "done"
        /\ tstate[i] \in {"returned", "done"} =>
              /\ tstate'[i] \in {"returned", "done"}
              /\ res'[i] = res[i]
              /\ invocations'[i] = invocations[i]

\* C12: one task per extracted question, each invoking sendToAi exactly once;
\* a task that has its outcome never transitions back and is never
\* re-dispatched.
ThmC12_SingleAttempt == []OneTaskPerQuestion /\ [][NoRetryStep]_vars

WitC12_SingleAttempt ==
    /\ Answered
    /\ Len(questions) >= 2
    /\ \E i, j \in Slots : res[i].err /\ ~res[j].err /\ invocations[i] = 1

\* The provider failure classes of a reply: transport failure, non-success
\* status, malformed body, empty completion payload.
FailureClasses(v, r) ==
    IF v = "gemini"
    THEN (IF ~r.transportOk \/ ~r.readOk THEN {"transport"} ELSE {})
         \cup (IF r.readOk /\ r.status # 200 THEN {"status"} ELSE {})
         \cup (IF r.readOk /\ r.status = 200 /\ ~r.wellFormed THEN {"malformed"} ELSE {})
         \cup (IF r.wellFormed /\ r.status = 200
                  /\ (r.candidates = 0 \/ r.parts = 0 \/ r.text = "")
               THEN {"empty"} ELSE {})
    ELSE (IF ~r.invokeOk THEN {"transport", "status"} ELSE {})
         \cup (IF r.invokeOk /\ ~r.wellFormed THEN {"malformed"} ELSE {})
         \cup (IF r.wellFormed /\ r.completion = "" THEN {"empty"} ELSE {})

\* C13: each provider failure class makes sendToAi return an error with empty
\* text and the task leave its slot at the zero Answer; text without error
\* comes back only when no class holds.
CexC13_FailureClasses ==
    \A i \in Tasks :
        reply[i] # << >> =>
            LET classes == FailureClasses(variant, reply[i][1]) IN
            /\ classes # {} =>
                  /\ res[i].err
                  /\ res[i].text = ""
                  /\ tstate[i] = "done" => answers[i] = ZeroAnswer
            /\ ~res[i].err => classes = {}

\* The version has a profile step (the gemini version; the bedrock version
\* composes every prompt from one bio literal and fetches nothing).
HasProfileStep == variant = "gemini"

ProfileFetchedOnce ==
    /\ profileFetches <= 1
    /\ spawned > 0 =>
          /\ profileFetches = (IF HasProfileStep THEN 1 ELSE 0)
          /\ HasProfileStep => profRes = "ok" /\ profile \in Profiles
    /\ \A i \in Tasks :
          invocations[i] > 0 =>
              prompt[i] = generatePromptWithBio(profile, questions[i])

ProfileFrozenStep ==
    (profRes # "none" \/ spawned > 0) =>
        profile' = profile /\ profileFetches' = profileFetches

Joined ==
    /\ wg = 0
    /\ \A i \in Slots : tstate[i] = "done"

EncodedAfterJoin ==
    /\ (pc = "encode" \/ Answered) => Joined
    /\ Answered => response = answers

NoWriteAfterJoinStep == (pc = "encode" \/ Answered) => answers' = answers

\* C15: answers is encoded only after every spawned task has finished and the
\* WaitGroup counter is back to zero; no task writes a slot during or after
\* the encoding, so the response is a consistent snapshot.
ThmC15_EncodeAfterJoin == []EncodedAfterJoin /\ [][NoWriteAfterJoinStep]_vars

WitC15_EncodeAfterJoin ==
    /\ pc = "encode"
    /\ Len(questions) >= 2
    /\ \E i, j \in Slots : writes[i] # << >> /\ res[j].err

\* C16: every element of the response is {Questions[i], text of task i} when
\* task i succeeded and {"", ""} when it failed.
ThmC16_AllOrNothing ==
    Answered =>
        \A i \in Slots :
            response[i] =
                IF res[i].err THEN ZeroAnswer
                ELSE [question |-> questions[i], answer |-> res[i].text]

WitC16_AllOrNothing ==
    /\ Answered
    /\ \E i, j \in Slots :
        /\ res[i].err /\ response[i] = ZeroAnswer
        /\ ~res[j].err /\ response[j].question = questions[j]
        /\ response[j].answer # ""

Unfinished == { i \in Tasks : tstate[i] \in {"pending", "calling", "returned"} }

CounterMatchesTasks == wg >= 0 /\ wg = Cardinality(Unfinished)

\* C17: under fair scheduling, with every sendToAi invocation returning, a
\* request that reaches dispatch produces its response; each task decrements
\* the WaitGroup exactly once on every path and the counter never goes
\* negative.
ThmC17_Terminates == []CounterMatchesTasks /\ (pc = "dispatch" ~> pc = "done")

WitC17_Terminates ==
    /\ Answered
    /\ status = 200
    /\ wg = 0
    /\ Len(questions) >= 2
    /\ \E i, j \in Slots : res[i].err /\ ~res[j].err
====
